---- MODULE Spec2Model ----
(***************************************************************************)
(* openCOSMO-RS: the segment type collection (types.hpp), the interaction  *)
(* matrix (interaction_matrix.hpp) and the cross-thread exception holder   *)
(* (types.hpp, threadException).                                           *)
(*                                                                         *)
(* Vectors are 0-based, as in the source: a vector of n elements is a      *)
(* function on 0..n-1.  Sigma values, areas and energies are integers in   *)
(* fixed units (see the matrix section for the energy unit).               *)
(***************************************************************************)
EXTENDS Integers, FiniteSets, Sequences, TLC

VARIABLES
    segments,       \* the segmentTypeCollection: parallel vectors and group bounds
    added,          \* history: per descriptor tuple, the areas passed to add() per molecule
    addedNonzero,   \* history: the descriptor tuples passed to add() with Area # 0
    lastOp,         \* history: the last operation and its arguments
    prevOp,         \* history: the name of the operation before the last
    pre,            \* history: the collection before the last operation
    p,              \* history: the permutation vector the last sort() computed
    nOps,           \* number of collection operations so far
    nSorts,         \* number of sort() calls since construction
    nClears,        \* number of clear() calls since construction
    layout,         \* where this build's store through index -1 lands
    oobIndexUsed,   \* history: the last sort() indexed a bound array outside 0..6
    param,          \* the parameters record
    temperature,    \* the temperature of the last calculateInteractionMatrix call
    A_int,          \* the interaction matrix, a function of <<row, column>>
    partialInteractionMatrices,  \* the vector of partial interaction matrices
    A_pre,          \* history: A_int before the last call
    A_mid,          \* history: A_int after the last call's neutral loop
    partial_pre,    \* history: the partial matrices before the last call
    outcome,        \* history: how the last call ended and the cells it stored
    nCalls,         \* number of calculateInteractionMatrix calls so far
    Ptr,            \* threadException::Ptr: the stored exception, or NullPtr
    Lock,           \* threadException::Lock: the worker holding it, or 0
    pc,             \* where each worker is in run() / capture_exception()
    current,        \* the exception each worker is handling (current_exception())
    runs,           \* run() calls each worker has started
    firstCaptured,  \* history: the first exception stored in Ptr
    raised,         \* what rethrow() raised on the initiating thread
    mainPc          \* the initiating thread: "parallel" or "rethrown"

collVars == <<segments, added, addedNonzero, lastOp, prevOp, pre, p, nOps,
              nSorts, nClears, layout, oobIndexUsed>>

matVars == <<param, temperature, A_int, partialInteractionMatrices, A_pre, A_mid,
             partial_pre, outcome, nCalls>>

thrVars == <<Ptr, Lock, pc, current, runs, firstCaptured, raised, mainPc>>

vars == <<collVars, matVars, thrVars>>

----------------------------------------------------------------------------
(* Bounds of the model *)

MaxOps == 4          \* operations on one collection in the add/sort/clear model
MaxLen == 3          \* records of a directly populated collection (sort model)
MaxSegments == 3     \* segment types of the collection a matrix is built for
MaxPartial == 1      \* partial interaction matrices
MaxCalls == 1        \* calculateInteractionMatrix calls on one matrix
NumberOfWorkers == 2 \* worker threads sharing one threadException
MaxRuns == 2         \* run() calls of each worker

(* The constructor argument numberOfMolecules *)
NumberOfMolecules == 2

(* The seven groups: the length of the three bound arrays *)
NumberOfGroups == 7

Groups == 0 .. (NumberOfGroups - 1)
Molecules == 0 .. (NumberOfMolecules - 1)

----------------------------------------------------------------------------
(* 0-based vectors *)

EmptyVec == [k \in {} |-> 0]
Size(v) == Cardinality(DOMAIN v)
PushBack(v, x) == [k \in 0 .. Size(v) |-> IF k < Size(v) THEN v[k] ELSE x]
Max(a, b) == IF a > b THEN a ELSE b

(* Descriptor tuples passed to add(): group, Sigma, SigmaCorr, HBtype,
   atomicNumber.  Two polyatomic neutrals, a monoatomic neutral, a monoatomic
   cation and a polyatomic anion. *)
Tuple(g, s, sc, hb, an) ==
    [group |-> g, Sigma |-> s, SigmaCorr |-> sc, HBtype |-> hb, atomicNumber |-> an]

AddInputs ==
    { Tuple(1, -5, -5, 1, 1),
      Tuple(1,  5,  4, 2, 8),
      Tuple(0,  0,  0, 0, 2),
      Tuple(3, -5, -5, 0, 11),
      Tuple(6,  5,  5, 0, 8) }

Areas == {0, 1}

----------------------------------------------------------------------------
(* segmentTypeCollection *)

(* segmentTypeCollection(int numberOfMolecules): the row template holds one
   0.0 per molecule, the vectors are empty and the bound arrays are zero. *)
segmentTypeCollection(numberOfMolecules) ==
    [ SegmentTypeAreasRowTemplate |-> [m \in 0 .. (numberOfMolecules - 1) |-> 0],
      SegmentTypeAreas        |-> EmptyVec,
      SegmentTypeGroup        |-> EmptyVec,
      SegmentTypeSigma        |-> EmptyVec,
      SegmentTypeSigmaCorr    |-> EmptyVec,
      SegmentTypeHBtype       |-> EmptyVec,
      SegmentTypeAtomicNumber |-> EmptyVec,
      lowerBoundIndexForGroup  |-> [g \in Groups |-> 0],
      upperBoundIndexForGroup  |-> [g \in Groups |-> 0],
      numberOfSegmentsForGroup |-> [g \in Groups |-> 0] ]

(* size(): the length of SegmentTypeHBtype *)
size(s) == Size(s.SegmentTypeHBtype)

(* clear(): empties the six vectors; the bound arrays are not touched *)
clear(s) ==
    [s EXCEPT !.SegmentTypeAreas = EmptyVec,
              !.SegmentTypeGroup = EmptyVec,
              !.SegmentTypeSigma = EmptyVec,
              !.SegmentTypeSigmaCorr = EmptyVec,
              !.SegmentTypeHBtype = EmptyVec,
              !.SegmentTypeAtomicNumber = EmptyVec]

(* A search that stops one element early: the last type is never found *)
RECURSIVE FindIndexSkipLast(_, _, _, _, _, _, _)
FindIndexSkipLast(s, i, group, Sigma, SigmaCorr, HBtype, atomicNumber) ==
    IF i >= Size(s.SegmentTypeHBtype) - 1 THEN -1
    ELSE IF /\ s.SegmentTypeGroup[i] = group
            /\ s.SegmentTypeHBtype[i] = HBtype
            /\ s.SegmentTypeSigma[i] = Sigma
            /\ s.SegmentTypeSigmaCorr[i] = SigmaCorr
            /\ s.SegmentTypeAtomicNumber[i] = atomicNumber
         THEN i
         ELSE FindIndexSkipLast(s, i + 1, group, Sigma, SigmaCorr, HBtype, atomicNumber)

(* The linear search of add(): the first index whose five descriptors all
   match, or -1 *)
RECURSIVE FindIndex(_, _, _, _, _, _, _)
FindIndex(s, i, group, Sigma, SigmaCorr, HBtype, atomicNumber) ==
    IF i >= Size(s.SegmentTypeHBtype) THEN -1
    ELSE IF /\ s.SegmentTypeGroup[i] = group
            /\ s.SegmentTypeHBtype[i] = HBtype
            /\ s.SegmentTypeSigma[i] = Sigma
            /\ s.SegmentTypeSigmaCorr[i] = SigmaCorr
            /\ s.SegmentTypeAtomicNumber[i] = atomicNumber
         THEN i
         ELSE FindIndex(s, i + 1, group, Sigma, SigmaCorr, HBtype, atomicNumber)

(* add(ind_molecule, group, Sigma, SigmaCorr, HBtype, atomicNumber, Area) *)
add(s, ind_molecule, group, Sigma, SigmaCorr, HBtype, atomicNumber, Area) ==
    IF Area = 0 THEN s
    ELSE
      LET found == FindIndex(s, 0, group, Sigma, SigmaCorr, HBtype, atomicNumber)
          s1 == IF found = -1
                THEN [s EXCEPT
                        !.SegmentTypeGroup = PushBack(@, group),
                        !.SegmentTypeHBtype = PushBack(@, HBtype),
                        !.SegmentTypeSigma = PushBack(@, Sigma),
                        !.SegmentTypeSigmaCorr = PushBack(@, SigmaCorr),
                        !.SegmentTypeAtomicNumber = PushBack(@, atomicNumber),
                        !.SegmentTypeAreas = PushBack(@, s.SegmentTypeAreasRowTemplate)]
                ELSE s
          index == IF found = -1 THEN Size(s1.SegmentTypeHBtype) - 1 ELSE found
      IN [s1 EXCEPT !.SegmentTypeAreas[index][ind_molecule] = @ + Area]

----------------------------------------------------------------------------
(* sort() *)

(* The comparator with its last tier reversed: equal descriptors order by
   descending index *)
LessReversedIndex(s, i, j) ==
    IF s.SegmentTypeGroup[i] # s.SegmentTypeGroup[j]
    THEN s.SegmentTypeGroup[i] < s.SegmentTypeGroup[j]
    ELSE IF /\ (s.SegmentTypeGroup[i] = 3 \/ s.SegmentTypeGroup[i] = 5)
            /\ s.SegmentTypeAtomicNumber[i] # s.SegmentTypeAtomicNumber[j]
    THEN s.SegmentTypeAtomicNumber[i] < s.SegmentTypeAtomicNumber[j]
    ELSE IF s.SegmentTypeSigma[i] # s.SegmentTypeSigma[j]
    THEN s.SegmentTypeSigma[i] < s.SegmentTypeSigma[j]
    ELSE IF s.SegmentTypeSigmaCorr[i] # s.SegmentTypeSigmaCorr[j]
    THEN s.SegmentTypeSigmaCorr[i] < s.SegmentTypeSigmaCorr[j]
    ELSE IF s.SegmentTypeHBtype[i] # s.SegmentTypeHBtype[j]
    THEN s.SegmentTypeHBtype[i] < s.SegmentTypeHBtype[j]
    ELSE IF s.SegmentTypeAtomicNumber[i] # s.SegmentTypeAtomicNumber[j]
    THEN s.SegmentTypeAtomicNumber[i] < s.SegmentTypeAtomicNumber[j]
    ELSE i > j

(* The comparator of get_permutation_vector: whether index i orders before
   index j *)
Less(s, i, j) ==
    IF s.SegmentTypeGroup[i] # s.SegmentTypeGroup[j]
    THEN s.SegmentTypeGroup[i] < s.SegmentTypeGroup[j]
    ELSE IF /\ (s.SegmentTypeGroup[i] = 3 \/ s.SegmentTypeGroup[i] = 5)
            /\ s.SegmentTypeAtomicNumber[i] # s.SegmentTypeAtomicNumber[j]
    THEN s.SegmentTypeAtomicNumber[i] < s.SegmentTypeAtomicNumber[j]
    ELSE IF s.SegmentTypeSigma[i] # s.SegmentTypeSigma[j]
    THEN s.SegmentTypeSigma[i] < s.SegmentTypeSigma[j]
    ELSE IF s.SegmentTypeSigmaCorr[i] # s.SegmentTypeSigmaCorr[j]
    THEN s.SegmentTypeSigmaCorr[i] < s.SegmentTypeSigmaCorr[j]
    ELSE IF s.SegmentTypeHBtype[i] # s.SegmentTypeHBtype[j]
    THEN s.SegmentTypeHBtype[i] < s.SegmentTypeHBtype[j]
    ELSE IF s.SegmentTypeAtomicNumber[i] # s.SegmentTypeAtomicNumber[j]
    THEN s.SegmentTypeAtomicNumber[i] < s.SegmentTypeAtomicNumber[j]
    ELSE i < j

(* std::sort of a vector of indices under a comparator cmp(i, j): insertion
   of each element before the first element it orders before *)
RECURSIVE InsertAt(_, _, _, _)
InsertAt(s, v, x, k) ==
    IF k >= Size(v) THEN PushBack(v, x)
    ELSE IF Less(s, x, v[k])
         THEN [m \in 0 .. Size(v) |->
                  IF m < k THEN v[m] ELSE IF m = k THEN x ELSE v[m - 1]]
         ELSE InsertAt(s, v, x, k + 1)

RECURSIVE StdSort(_, _, _)
StdSort(s, v, i) ==
    IF i >= Size(s.SegmentTypeGroup) THEN v
    ELSE StdSort(s, InsertAt(s, v, i, 0), i + 1)

(* get_permutation_vector(): iota, then std::sort under the comparator *)
get_permutation_vector(s) == StdSort(s, EmptyVec, 0)

(* apply_vector_permutation_in_place: the inner while loop, following the
   cycle that starts at i *)
RECURSIVE FollowCycle(_, _, _, _, _, _)
FollowCycle(vec, done, q, i, prev_j, j) ==
    IF i = j THEN [vec |-> vec, done |-> done]
    ELSE FollowCycle([vec EXCEPT ![prev_j] = vec[j], ![j] = vec[prev_j]],
                     [done EXCEPT ![j] = TRUE], q, i, j, q[j])

(* apply_vector_permutation_in_place: the outer for loop *)
RECURSIVE PermuteFrom(_, _, _, _)
PermuteFrom(vec, done, q, i) ==
    IF i >= Size(vec) THEN vec
    ELSE IF done[i] THEN PermuteFrom(vec, done, q, i + 1)
    ELSE LET r == FollowCycle(vec, [done EXCEPT ![i] = TRUE], q, i, i, q[i])
         IN PermuteFrom(r.vec, r.done, q, i + 1)

(* A scatter instead of a gather: element k is sent to position q[k] *)
apply_vector_permutation_scatter(vec, q) ==
    [k \in DOMAIN vec |-> vec[CHOOSE m \in DOMAIN vec : q[m] = k]]

apply_vector_permutation_in_place(vec, q) ==
    PermuteFrom(vec, [k \in DOMAIN vec |-> FALSE], q, 0)

(* The scan of sort() over the permuted groups: the for loop of lines
   273-284, from index i with the running temporaryindex *)
RECURSIVE ScanBounds(_, _, _, _, _)
ScanBounds(grp, lower, upper, temporaryindex, i) ==
    IF i >= Size(grp)
    THEN [lower |-> lower, upper |-> upper, temporaryindex |-> temporaryindex, i |-> i]
    ELSE IF temporaryindex # grp[i]
         THEN ScanBounds(grp,
                         [lower EXCEPT ![grp[i]] = i],
                         IF temporaryindex # -1
                         THEN [upper EXCEPT ![temporaryindex] = i]
                         ELSE upper,
                         grp[i], i + 1)
         ELSE ScanBounds(grp, lower, upper, temporaryindex, i + 1)

(* A scan that first zeroes both bound arrays *)
ScanGroupsFromZero(grp, lower, upper) ==
    ScanBounds(grp, [g \in Groups |-> 0], [g \in Groups |-> 0], -1, 0)

(* int temporaryindex = -1; for (i = 0; i < size(); i++) ... *)
ScanGroups(grp, lower, upper) == ScanBounds(grp, lower, upper, -1, 0)

(* The store after the loop forgotten: the last group's upper bound is never
   written *)
StoreLastUpperForgotten(r, lay) == [lower |-> r.lower, upper |-> r.upper]

(* upperBoundIndexForGroup[temporaryindex] = i after the loop.  With an empty
   collection temporaryindex is still -1 and the store is out of the array's
   bounds: in this build it either lands on the int in front of
   upperBoundIndexForGroup, which is lowerBoundIndexForGroup[6], or is
   dropped. *)
StoreLastUpper(r, lay) ==
    IF r.temporaryindex \in Groups
    THEN [lower |-> r.lower, upper |-> [r.upper EXCEPT ![r.temporaryindex] = r.i]]
    ELSE IF lay = "adjacent"
         THEN [lower |-> [r.lower EXCEPT ![NumberOfGroups - 1] = r.i], upper |-> r.upper]
         ELSE [lower |-> r.lower, upper |-> r.upper]

(* numberOfSegmentsForGroup[i] = max(upper[i] - lower[i], 0) *)
CountSegments(lower, upper) ==
    [g \in Groups |-> Max(upper[g] - lower[g], 0)]

(* sort(): permute the six vectors by q, then scan the bounds and count *)
sortWith(s, q, lay) ==
    LET grp == apply_vector_permutation_in_place(s.SegmentTypeGroup, q)
        r   == ScanGroups(grp, s.lowerBoundIndexForGroup, s.upperBoundIndexForGroup)
        b   == StoreLastUpper(r, lay)
    IN [s EXCEPT
          !.SegmentTypeGroup = grp,
          !.SegmentTypeSigma = apply_vector_permutation_in_place(@, q),
          !.SegmentTypeSigmaCorr = apply_vector_permutation_in_place(@, q),
          !.SegmentTypeHBtype = apply_vector_permutation_in_place(@, q),
          !.SegmentTypeAtomicNumber = apply_vector_permutation_in_place(@, q),
          !.SegmentTypeAreas = apply_vector_permutation_in_place(@, q),
          !.lowerBoundIndexForGroup = b.lower,
          !.upperBoundIndexForGroup = b.upper,
          !.numberOfSegmentsForGroup = CountSegments(b.lower, b.upper)]

sort(s, lay) == sortWith(s, get_permutation_vector(s), lay)

(* Whether sort() on s indexes a bound array outside 0..6: the store after
   the loop uses temporaryindex, which is still -1 when the loop body never
   ran; every other index is a group value or the counter of the last loop *)
SortIndexesOutOfBounds(s) ==
    ScanGroups(apply_vector_permutation_in_place(s.SegmentTypeGroup,
                                                 get_permutation_vector(s)),
               s.lowerBoundIndexForGroup,
               s.upperBoundIndexForGroup).temporaryindex \notin Groups

----------------------------------------------------------------------------
(* calculateInteractionMatrix *)

(* Units.  Sigma values are integers in a unit in which SigmaHB is an
   integer.  0.816 is SigmaTransNum / SigmaTransDen; energies are held
   multiplied by SigmaTransDen and divided by 25000, so that the literals
   5950000.0 * 0.5 and 36700000.0 become MisfitConstant and HBConstant.
   Temperatures are in units of 298.15 K / ReferenceTemperature. *)
MisfitConstant == 119
HBConstant == 1468
SigmaTransNum == 102
SigmaTransDen == 125
ReferenceTemperature == 4

(* The significand of a float: values below 2^24 convert exactly *)
FloatSignificand == 16777216

Abs(x) == IF x < 0 THEN -x ELSE x

(* The spacing of floats at magnitude a *)
RECURSIVE Quantum(_, _)
Quantum(a, q) == IF a < FloatSignificand * q THEN q ELSE Quantum(a, 2 * q)

(* (float)val: round to the nearest value with a 24-bit significand, ties to
   even *)
ToFloat(x) ==
    LET a  == Abs(x)
        q  == Quantum(a, 1)
        lo == (a \div q) * q
        r  == a - lo
        up == IF 2 * r < q THEN lo
              ELSE IF 2 * r > q THEN lo + q
              ELSE IF (lo \div q) % 2 = 0 THEN lo ELSE lo + q
    IN IF x < 0 THEN -up ELSE up

(* 0.5 * x.  Every sum of two diagonal entries is even in this model (see
   DiagonalsEven), so the half is exact. *)
Half(x) == x \div 2

Cells(n) == (0 .. (n - 1)) \X (0 .. (n - 1))

(* misfit_prefactor = Aeff * alpha * 5950000.0 * 0.5 *)
misfit_prefactor(prm) == prm.Aeff * prm.alpha * MisfitConstant

(* buffdb1 = 1.0 - CHBT + CHBT * (298.15 / temperature), times temperature *)
buffdb1(prm, T) == T * (1 - prm.CHBT) + prm.CHBT * ReferenceTemperature

(* CHB_T = 0; if (buffdb1 > 0) CHB_T = CHB * 36700000.0 * buffdb1 *)
CHB_T(prm, T) ==
    IF buffdb1(prm, T) > 0 THEN (prm.CHB * HBConstant * buffdb1(prm, T)) \div T ELSE 0

(* hb_prefactor = Aeff * CHB_T *)
hb_prefactor(prm, T) == prm.Aeff * CHB_T(prm, T)

(* The neutral span ignoring the group bounds: every segment *)
UpperBoundIndexForAllComponents(s) == size(s)

(* UpperBoundIndexForNeutralComponents: the max of the upper bounds of
   groups 0, 1 and 2 *)
UpperBoundIndexForNeutralComponents(s) ==
    Max(Max(s.upperBoundIndexForGroup[0], s.upperBoundIndexForGroup[1]),
        s.upperBoundIndexForGroup[2])

(* sigmaTrans = sigmaCorr - 0.816 * sigma *)
sigmaTrans(sigmaCorr, sigma) == SigmaTransDen * sigmaCorr - SigmaTransNum * sigma

(* The misfit value of the pair (i, j): lines 58-69 *)
MisfitValue(s, prm, i, j) ==
    LET sigmai == s.SegmentTypeSigma[i]
        sigmaj == s.SegmentTypeSigma[j]
        sigmaMFij == sigmai + sigmaj
    IN IF prm.sw_misfit > 0
       THEN misfit_prefactor(prm) * sigmaMFij *
               (SigmaTransDen * sigmaMFij
                  + prm.fCorr * (sigmaTrans(s.SegmentTypeSigmaCorr[i], sigmai)
                                   + sigmaTrans(s.SegmentTypeSigmaCorr[j], sigmaj)))
       ELSE misfit_prefactor(prm) * sigmaMFij * sigmaMFij * SigmaTransDen

(* The hydrogen-bond branches with the second throw missing: a pair with
   sigmaj < -sigmaHB, sigmai > sigmaHB and classes 1, 2 keeps its misfit value *)
HydrogenBondNoSecondThrow(s, prm, T, i, j) ==
    LET sigmai == s.SegmentTypeSigma[i]
        sigmaj == s.SegmentTypeSigma[j]
        sigmaHB == prm.SigmaHB
        hbi == s.SegmentTypeHBtype[i]
        hbj == s.SegmentTypeHBtype[j]
    IN IF sigmai < -sigmaHB /\ sigmaj > sigmaHB
       THEN IF hbi = 1 /\ hbj = 2
            THEN [throws |-> FALSE,
                  term |-> SigmaTransDen * hb_prefactor(prm, T)
                              * (sigmaj - sigmaHB) * (sigmai + sigmaHB)]
            ELSE [throws |-> (hbi = 2 /\ hbj = 1), term |-> 0]
       ELSE IF sigmaj < -sigmaHB /\ sigmai > sigmaHB
       THEN IF hbi = 2 /\ hbj = 1
            THEN [throws |-> FALSE,
                  term |-> SigmaTransDen * hb_prefactor(prm, T)
                              * (sigmai - sigmaHB) * (sigmaj + sigmaHB)]
            ELSE [throws |-> FALSE, term |-> 0]
       ELSE [throws |-> FALSE, term |-> 0]

(* The hydrogen-bond term with the thresholds on the wrong factors *)
HydrogenBondWrongFactors(s, prm, T, i, j) ==
    LET sigmai == s.SegmentTypeSigma[i]
        sigmaj == s.SegmentTypeSigma[j]
        sigmaHB == prm.SigmaHB
        hbi == s.SegmentTypeHBtype[i]
        hbj == s.SegmentTypeHBtype[j]
    IN IF sigmai < -sigmaHB /\ sigmaj > sigmaHB
       THEN IF hbi = 1 /\ hbj = 2
            THEN [throws |-> FALSE,
                  term |-> SigmaTransDen * hb_prefactor(prm, T)
                              * (sigmaj + sigmaHB) * (sigmai + sigmaHB)]
            ELSE [throws |-> (hbi = 2 /\ hbj = 1), term |-> 0]
       ELSE IF sigmaj < -sigmaHB /\ sigmai > sigmaHB
       THEN IF hbi = 2 /\ hbj = 1
            THEN [throws |-> FALSE,
                  term |-> SigmaTransDen * hb_prefactor(prm, T)
                              * (sigmai + sigmaHB) * (sigmaj + sigmaHB)]
            ELSE [throws |-> (hbi = 1 /\ hbj = 2), term |-> 0]
       ELSE [throws |-> FALSE, term |-> 0]

(* The hydrogen-bond branches of the pair (i, j), lines 72-91: the term added
   to val, or the throw *)
HydrogenBond(s, prm, T, i, j) ==
    LET sigmai == s.SegmentTypeSigma[i]
        sigmaj == s.SegmentTypeSigma[j]
        sigmaHB == prm.SigmaHB
        hbi == s.SegmentTypeHBtype[i]
        hbj == s.SegmentTypeHBtype[j]
    IN IF sigmai < -sigmaHB /\ sigmaj > sigmaHB
       THEN IF hbi = 1 /\ hbj = 2
            THEN [throws |-> FALSE,
                  term |-> SigmaTransDen * hb_prefactor(prm, T)
                              * (sigmaj - sigmaHB) * (sigmai + sigmaHB)]
            ELSE [throws |-> (hbi = 2 /\ hbj = 1), term |-> 0]
       ELSE IF sigmaj < -sigmaHB /\ sigmai > sigmaHB
       THEN IF hbi = 2 /\ hbj = 1
            THEN [throws |-> FALSE,
                  term |-> SigmaTransDen * hb_prefactor(prm, T)
                              * (sigmai - sigmaHB) * (sigmaj + sigmaHB)]
            ELSE [throws |-> (hbi = 1 /\ hbj = 2), term |-> 0]
       ELSE [throws |-> FALSE, term |-> 0]

(* The two nested loops of lines 47-96 from the pair (i, j) on: each pair
   either throws, which ends the call, or stores (float)val in A_int(j, i) *)
RECURSIVE NeutralLoop(_, _, _, _, _, _, _, _)
NeutralLoop(s, prm, T, upper, A, written, i, j) ==
    IF i >= upper
    THEN [A |-> A, written |-> written, thrown |-> FALSE, at |-> <<-1, -1>>]
    ELSE IF j >= upper
    THEN NeutralLoop(s, prm, T, upper, A, written, i + 1, i + 1)
    ELSE LET hb == HydrogenBond(s, prm, T, i, j)
             val == MisfitValue(s, prm, i, j) + hb.term
         IN IF hb.throws
            THEN [A |-> A, written |-> written, thrown |-> TRUE, at |-> <<i, j>>]
            ELSE NeutralLoop(s, prm, T, upper,
                             [A EXCEPT ![<<j, i>>] = ToFloat(val)],
                             written \cup {<<j, i>>}, i, j + 1)

(* Lines 44-96: the loops run from lowerBoundIndexForGroup[0] to the neutral
   upper bound *)
NeutralTerms(s, prm, T, A) ==
    NeutralLoop(s, prm, T, UpperBoundIndexForNeutralComponents(s), A, {},
                s.lowerBoundIndexForGroup[0], s.lowerBoundIndexForGroup[0])

(* The subtraction pass, lines 101-106 (single precision) and 115-120
   (double precision), from the pair (i, j) on *)
RECURSIVE SubtractPass(_, _, _, _, _)
SubtractPass(A, n, single, i, j) ==
    IF i >= n THEN A
    ELSE IF j >= n THEN SubtractPass(A, n, single, i + 1, i + 2)
    ELSE LET sum  == A[<<i, i>>] + A[<<j, j>>]
             half == IF single THEN ToFloat(Half(ToFloat(sum))) ELSE Half(sum)
             new  == IF single THEN ToFloat(A[<<j, i>>] - half) ELSE A[<<j, i>>] - half
         IN SubtractPass([A EXCEPT ![<<j, i>>] = new], n, single, i, j + 1)

(* The zeroing pass, lines 109-111 and 123-127 *)
ZeroDiagonal(A, n) ==
    [c \in DOMAIN A |-> IF c[1] = c[2] /\ c[1] < n THEN 0 ELSE A[c]]

(* The two passes in the wrong order: the diagonal zeroed first *)
RenormalizeZeroFirst(A, n, single) == SubtractPass(ZeroDiagonal(A, n), n, single, 0, 1)

(* The reference state of one matrix: subtract, then zero the diagonal *)
Renormalize(A, n, single) == ZeroDiagonal(SubtractPass(A, n, single, 0, 1), n)

(* calculateInteractionMatrix(segments, A_int, partialInteractionMatrices,
   param, temperature): the matrices after the call, the matrix between the
   neutral loop and the reference state, the cells the loop stored, and
   whether and where the call threw *)
calculateInteractionMatrix(s, A, partial, prm, T) ==
    LET numberOfSegments == size(s)
        r == NeutralTerms(s, prm, T, A)
    IN IF r.thrown
       THEN [A |-> r.A, partial |-> partial, mid |-> r.A,
             status |-> "thrown", written |-> r.written, at |-> r.at]
       ELSE IF prm.sw_useSegmentReferenceStateForInteractionMatrix = 1
       THEN [A |-> Renormalize(r.A, numberOfSegments, TRUE),
             partial |->
                IF prm.sw_calculateContactStatisticsAndAdditionalProperties > 0
                THEN [h \in DOMAIN partial |->
                         IF h < prm.numberOfPartialInteractionMatrices
                         THEN Renormalize(partial[h], numberOfSegments, FALSE)
                         ELSE partial[h]]
                ELSE partial,
             mid |-> r.A,
             status |-> "returned", written |-> r.written, at |-> r.at]
       ELSE [A |-> r.A, partial |-> partial, mid |-> r.A,
             status |-> "returned", written |-> r.written, at |-> r.at]

----------------------------------------------------------------------------
(* States of the parts a model leaves out *)

(* The parameters: the switches vary per model, the physical constants are
   fixed.  Aeff is even, which makes every computed energy even. *)
Parameters(misfit, refstate, contact, npartial) ==
    [ sw_misfit |-> misfit,
      sw_useSegmentReferenceStateForInteractionMatrix |-> refstate,
      sw_calculateContactStatisticsAndAdditionalProperties |-> contact,
      numberOfPartialInteractionMatrices |-> npartial,
      Aeff |-> 2, alpha |-> 1, CHB |-> 1, CHBT |-> 2, SigmaHB |-> 2, fCorr |-> 2 ]

NoOutcome == [status |-> "none", written |-> {}, at |-> <<-1, -1>>]

(* No matrix has been built *)
NoMatrix ==
    /\ param = Parameters(2, 0, 0, 0)
    /\ temperature = ReferenceTemperature
    /\ A_int = [c \in Cells(0) |-> 0]
    /\ partialInteractionMatrices = EmptyVec
    /\ A_pre = [c \in Cells(0) |-> 0]
    /\ A_mid = [c \in Cells(0) |-> 0]
    /\ partial_pre = EmptyVec
    /\ outcome = NoOutcome
    /\ nCalls = 0

Workers == 1 .. NumberOfWorkers

(* threadException(): Ptr(nullptr) *)
NullPtr == 0

(* A threadException as constructed, no parallel section running *)
NewThreadException ==
    /\ Ptr = NullPtr
    /\ Lock = 0
    /\ current = [w \in Workers |-> NullPtr]
    /\ firstCaptured = NullPtr
    /\ raised = NullPtr

NoWorkers ==
    /\ NewThreadException
    /\ pc = [w \in Workers |-> "idle"]
    /\ runs = [w \in Workers |-> MaxRuns]
    /\ mainPc = "none"

----------------------------------------------------------------------------
(* The add / sort / clear model of one collection *)

NoOp == [name |-> "new", Area |-> 0]

InitHistory ==
    /\ added = [t \in AddInputs |-> [m \in Molecules |-> 0]]
    /\ addedNonzero = {}
    /\ lastOp = NoOp
    /\ prevOp = "new"
    /\ p = EmptyVec
    /\ nOps = 0
    /\ nSorts = 0
    /\ nClears = 0
    /\ oobIndexUsed = FALSE

(* A collection as constructed; the build fixes where an out-of-bounds store
   lands *)
Init ==
    /\ segments = segmentTypeCollection(NumberOfMolecules)
    /\ pre = segmentTypeCollection(NumberOfMolecules)
    /\ layout \in {"adjacent", "dropped"}
    /\ InitHistory
    /\ NoMatrix
    /\ NoWorkers

Add ==
    /\ nOps < MaxOps
    /\ \E t \in AddInputs, m \in Molecules, a \in Areas :
          /\ segments' = add(segments, m, t.group, t.Sigma, t.SigmaCorr, t.HBtype,
                             t.atomicNumber, a)
          /\ added' = [added EXCEPT ![t][m] = @ + a]
          /\ addedNonzero' = IF a # 0 THEN addedNonzero \cup {t} ELSE addedNonzero
          /\ lastOp' = [name |-> "add", Area |-> a]
    /\ prevOp' = lastOp.name
    /\ pre' = segments
    /\ nOps' = nOps + 1
    /\ UNCHANGED <<p, nSorts, nClears, layout, oobIndexUsed, matVars, thrVars>>

Sort ==
    /\ nOps < MaxOps
    /\ segments' = sort(segments, layout)
    /\ p' = get_permutation_vector(segments)
    /\ oobIndexUsed' = SortIndexesOutOfBounds(segments)
    /\ lastOp' = [name |-> "sort", Area |-> 0]
    /\ prevOp' = lastOp.name
    /\ pre' = segments
    /\ nOps' = nOps + 1
    /\ nSorts' = nSorts + 1
    /\ UNCHANGED <<added, addedNonzero, nClears, layout, matVars, thrVars>>

Clear ==
    /\ nOps < MaxOps
    /\ segments' = clear(segments)
    /\ added' = [t \in AddInputs |-> [m \in Molecules |-> 0]]
    /\ addedNonzero' = {}
    /\ lastOp' = [name |-> "clear", Area |-> 0]
    /\ prevOp' = lastOp.name
    /\ pre' = segments
    /\ nOps' = nOps + 1
    /\ nClears' = nClears + 1
    /\ UNCHANGED <<p, nSorts, layout, oobIndexUsed, matVars, thrVars>>

Next == Add \/ Sort \/ Clear

Spec == Init /\ [][Next]_vars

----------------------------------------------------------------------------
(* The sort model: sort() applied to any collection of up to MaxLen records,
   equal descriptors included (the vectors are public members).  Record k
   starts with area k + 1 for every molecule, so records with equal
   descriptors can be told apart. *)

SortInputs ==
    AddInputs \cup
    { Tuple(3, -3, -3, 0, 3),
      Tuple(1, -5, -4, 1, 1),
      Tuple(1, -5, -5, 2, 1),
      Tuple(1, -5, -5, 1, 8),
      Tuple(5,  3,  3, 0, 17),
      Tuple(5,  5,  5, 0, 9) }

Populated(v) ==
    [ SegmentTypeAreasRowTemplate |-> [m \in Molecules |-> 0],
      SegmentTypeAreas        |-> [k \in DOMAIN v |-> [m \in Molecules |-> k + 1]],
      SegmentTypeGroup        |-> [k \in DOMAIN v |-> v[k].group],
      SegmentTypeSigma        |-> [k \in DOMAIN v |-> v[k].Sigma],
      SegmentTypeSigmaCorr    |-> [k \in DOMAIN v |-> v[k].SigmaCorr],
      SegmentTypeHBtype       |-> [k \in DOMAIN v |-> v[k].HBtype],
      SegmentTypeAtomicNumber |-> [k \in DOMAIN v |-> v[k].atomicNumber],
      lowerBoundIndexForGroup  |-> [g \in Groups |-> 0],
      upperBoundIndexForGroup  |-> [g \in Groups |-> 0],
      numberOfSegmentsForGroup |-> [g \in Groups |-> 0] ]

InitSort ==
    /\ \E n \in 0 .. MaxLen : \E v \in [0 .. (n - 1) -> SortInputs] :
          /\ segments = Populated(v)
          /\ pre = Populated(v)
    /\ layout \in {"adjacent", "dropped"}
    /\ InitHistory
    /\ NoMatrix
    /\ NoWorkers

SortAgain ==
    /\ nSorts < 2
    /\ Sort

NextSort == SortAgain

SpecSort == InitSort /\ [][NextSort]_vars

----------------------------------------------------------------------------
(* Properties of add() *)

Descriptor(s, k) ==
    Tuple(s.SegmentTypeGroup[k], s.SegmentTypeSigma[k], s.SegmentTypeSigmaCorr[k],
          s.SegmentTypeHBtype[k], s.SegmentTypeAtomicNumber[k])

TypesOf(s, t) == {k \in DOMAIN s.SegmentTypeGroup : Descriptor(s, k) = t}

SameLengths(s) ==
    /\ DOMAIN s.SegmentTypeGroup = 0 .. (size(s) - 1)
    /\ DOMAIN s.SegmentTypeSigma = DOMAIN s.SegmentTypeGroup
    /\ DOMAIN s.SegmentTypeSigmaCorr = DOMAIN s.SegmentTypeGroup
    /\ DOMAIN s.SegmentTypeHBtype = DOMAIN s.SegmentTypeGroup
    /\ DOMAIN s.SegmentTypeAtomicNumber = DOMAIN s.SegmentTypeGroup
    /\ DOMAIN s.SegmentTypeAreas = DOMAIN s.SegmentTypeGroup

(* C1: after any sequence of add() calls (since construction or the last
   clear()) the collection holds exactly one SegmentType per descriptor tuple
   that was added with a nonzero area and none for any other tuple; that
   type's area for molecule m is the sum of the areas added for the tuple and
   m; and an add() with Area = 0 leaves the whole collection as it was. *)
C1_AddAccumulates ==
    /\ SameLengths(segments)
    /\ size(segments) = Cardinality(addedNonzero)
    /\ \A t \in AddInputs :
          Cardinality(TypesOf(segments, t)) = IF t \in addedNonzero THEN 1 ELSE 0
    /\ \A t \in addedNonzero : \A k \in TypesOf(segments, t) : \A m \in Molecules :
          segments.SegmentTypeAreas[k][m] = added[t][m]
    /\ (lastOp.name = "add" /\ lastOp.Area = 0) => segments = pre

(* C1's case: one tuple added twice for one molecule (its single type holds
   the sum 2), then an add() with Area = 0 *)
C1_Witness ==
    /\ lastOp.name = "add" /\ lastOp.Area = 0
    /\ size(segments) = 1
    /\ \E m \in Molecules : segments.SegmentTypeAreas[0][m] = 2

----------------------------------------------------------------------------
(* Properties of sort() *)

Members(s, g) == {k \in DOMAIN s.SegmentTypeGroup : s.SegmentTypeGroup[k] = g}
Range(s, g) == s.lowerBoundIndexForGroup[g] .. (s.upperBoundIndexForGroup[g] - 1)
NonEmptyGroups(s) == {g \in Groups : Members(s, g) # {}}

(* C2: after sort() on a collection that was constructed and populated only
   by add() (never cleared), for every group g the indices in
   [lowerBound[g], upperBound[g]) are exactly the indices whose group is g,
   and the ranges of the groups that have members are adjacent in ascending
   group order and cover [0, size()). *)
C2_GroupRanges ==
    (lastOp.name = "sort" /\ nClears = 0) =>
        /\ \A g \in Groups : Range(segments, g) = Members(segments, g)
        /\ \A g \in NonEmptyGroups(segments) :
              /\ segments.lowerBoundIndexForGroup[g] =
                    Cardinality({k \in DOMAIN segments.SegmentTypeGroup :
                                    segments.SegmentTypeGroup[k] < g})
              /\ segments.upperBoundIndexForGroup[g] =
                    segments.lowerBoundIndexForGroup[g]
                       + Cardinality(Members(segments, g))
        /\ \A g, h \in NonEmptyGroups(segments) :
              (g < h /\ \A x \in NonEmptyGroups(segments) : ~(g < x /\ x < h))
                 => segments.upperBoundIndexForGroup[g] = segments.lowerBoundIndexForGroup[h]
        /\ \A g \in NonEmptyGroups(segments) :
              /\ (\A x \in NonEmptyGroups(segments) : g <= x)
                    => segments.lowerBoundIndexForGroup[g] = 0
              /\ (\A x \in NonEmptyGroups(segments) : x <= g)
                    => segments.upperBoundIndexForGroup[g] = size(segments)

(* C2's case: a first sort() of three types in groups 0, 1 and 6, with the
   groups 2..5 empty between them *)
C2_Witness ==
    /\ lastOp.name = "sort" /\ nClears = 0 /\ nSorts = 1
    /\ size(segments) = 3
    /\ NonEmptyGroups(segments) = {0, 1, 6}
    /\ pre.SegmentTypeGroup # segments.SegmentTypeGroup

(* Lexicographic order of two equally long tuples of integers *)
RECURSIVE LexLess(_, _, _)
LexLess(a, b, k) ==
    IF k > Len(a) THEN FALSE
    ELSE IF a[k] # b[k] THEN a[k] < b[k]
    ELSE LexLess(a, b, k + 1)

(* The seven tiers of record k of collection s, its index last *)
Tiers(s, k) ==
    << s.SegmentTypeGroup[k],
       IF s.SegmentTypeGroup[k] \in {3, 5} THEN s.SegmentTypeAtomicNumber[k] ELSE 0,
       s.SegmentTypeSigma[k], s.SegmentTypeSigmaCorr[k], s.SegmentTypeHBtype[k],
       s.SegmentTypeAtomicNumber[k], k >>

(* The first six tiers: the record's own attributes *)
Tiers6(s, k) == SubSeq(Tiers(s, k), 1, 6)

(* C3: sort() permutes whole records: p is a permutation of the indices that
   orders the pre-sort records strictly by the seven tiers, position k holds
   all six attributes of the pre-sort record p[k], and consecutive records
   are in non-decreasing order of their attribute tiers. *)
C3_SortPermutesRecords ==
    lastOp.name = "sort" =>
        /\ SameLengths(segments)
        /\ DOMAIN p = DOMAIN pre.SegmentTypeGroup
        /\ {p[k] : k \in DOMAIN p} = DOMAIN pre.SegmentTypeGroup
        /\ \A k \in DOMAIN p :
              /\ Descriptor(segments, k) = Descriptor(pre, p[k])
              /\ segments.SegmentTypeAreas[k] = pre.SegmentTypeAreas[p[k]]
        /\ \A k \in DOMAIN p : (k + 1) \in DOMAIN p =>
              /\ LexLess(Tiers(pre, p[k]), Tiers(pre, p[k + 1]), 1)
              /\ ~LexLess(Tiers6(segments, k + 1), Tiers6(segments, k), 1)

(* C3's case: a sort() of three records whose permutation is a 3-cycle, with
   two monoatomic cations that atomic number orders against sigma *)
C3_Witness ==
    /\ lastOp.name = "sort"
    /\ size(segments) = 3
    /\ \A k \in DOMAIN p : p[k] # k
    /\ \E k \in DOMAIN p : (k + 1) \in DOMAIN p
          /\ segments.SegmentTypeGroup[k] = 3 /\ segments.SegmentTypeGroup[k + 1] = 3
          /\ segments.SegmentTypeSigma[k] > segments.SegmentTypeSigma[k + 1]

(* C4: a second sort() leaves the vectors, the area rows and the three bound
   arrays as the first left them, its permutation being the identity; and
   after a sort() records with equal descriptors are in their original order
   (record k of the unsorted collection carries the area k + 1). *)
C4_SortIdempotentStable ==
    /\ (lastOp.name = "sort" /\ prevOp = "sort") =>
          /\ segments = pre
          /\ p = [k \in DOMAIN pre.SegmentTypeGroup |-> k]
    /\ lastOp.name = "sort" =>
          \A k, l \in DOMAIN segments.SegmentTypeGroup :
              (k < l /\ Descriptor(segments, k) = Descriptor(segments, l)) =>
                  /\ p[k] < p[l]
                  /\ segments.SegmentTypeAreas[k][0] < segments.SegmentTypeAreas[l][0]

(* C4's case: a second sort() of a collection that the first sort() had to
   reorder and that holds two records with equal descriptors *)
C4_Witness ==
    /\ lastOp.name = "sort" /\ prevOp = "sort"
    /\ \E k, l \in DOMAIN segments.SegmentTypeGroup :
          k < l /\ Descriptor(segments, k) = Descriptor(segments, l)
    /\ \E k, l \in DOMAIN segments.SegmentTypeGroup :
          k < l /\ segments.SegmentTypeAreas[k][0] > segments.SegmentTypeAreas[l][0]

(* The insertion point of the next nonempty group: the lower bound of the
   nearest higher-numbered group with members, or size() *)
InsertionPoint(s, g) ==
    LET higher == {h \in NonEmptyGroups(s) : h > g}
    IN IF higher = {} THEN size(s)
       ELSE s.lowerBoundIndexForGroup[CHOOSE h \in higher : \A x \in higher : h <= x]

(* C10 as stated: after sort() every group without members has count 0 and
   both bounds at the insertion point of the next nonempty group, and the
   ranges of groups 0..6 are non-decreasing. *)
C10_Original ==
    lastOp.name = "sort" =>
        /\ \A g \in Groups \ NonEmptyGroups(segments) :
              /\ segments.numberOfSegmentsForGroup[g] = 0
              /\ segments.lowerBoundIndexForGroup[g] = InsertionPoint(segments, g)
              /\ segments.upperBoundIndexForGroup[g] = InsertionPoint(segments, g)
        /\ \A g \in Groups : (g + 1) \in Groups =>
              segments.upperBoundIndexForGroup[g] <= segments.lowerBoundIndexForGroup[g + 1]

(* C10 amended: sort() writes bounds only for groups that occur.  A group
   without members keeps the bounds it had before the call (on an empty
   collection the store through index -1 may set lowerBound[6] to 0), its
   count is max(upperBound - lowerBound, 0) of those bounds, and on a
   collection that was never cleared all three are 0, not the insertion
   point; the ranges of the groups that have members are ascending and do
   not overlap. *)
C10_EmptyGroupsKeepBounds ==
    lastOp.name = "sort" =>
        /\ \A g \in Groups \ NonEmptyGroups(segments) :
              /\ segments.upperBoundIndexForGroup[g] = pre.upperBoundIndexForGroup[g]
              /\ \/ segments.lowerBoundIndexForGroup[g] = pre.lowerBoundIndexForGroup[g]
                 \/ /\ size(segments) = 0 /\ g = NumberOfGroups - 1
                    /\ segments.lowerBoundIndexForGroup[g] = 0
              /\ segments.numberOfSegmentsForGroup[g] =
                    Max(segments.upperBoundIndexForGroup[g]
                          - segments.lowerBoundIndexForGroup[g], 0)
              /\ nClears = 0 =>
                    /\ segments.lowerBoundIndexForGroup[g] = 0
                    /\ segments.upperBoundIndexForGroup[g] = 0
                    /\ segments.numberOfSegmentsForGroup[g] = 0
        /\ \A g, h \in NonEmptyGroups(segments) :
              g < h => segments.upperBoundIndexForGroup[g] <= segments.lowerBoundIndexForGroup[h]

(* C10's case: a sort() of a never-cleared collection with members in groups
   0 and 6 only, so that the empty groups 1..5 lie between two nonempty ones *)
C10_Witness ==
    /\ lastOp.name = "sort" /\ nClears = 0
    /\ NonEmptyGroups(segments) = {0, 6}
    /\ InsertionPoint(segments, 1) = 1
    /\ segments.lowerBoundIndexForGroup[1] = 0

(* C11: sort() on any collection whose groups are all in 0..6, the empty
   collection included, reads and writes lowerBoundIndexForGroup,
   upperBoundIndexForGroup and numberOfSegmentsForGroup only at indices
   0..6. *)
C11_SortIndexesInBounds ==
    lastOp.name = "sort" => ~oobIndexUsed

(* The span of indices that calculateInteractionMatrix iterates for the
   neutral groups: [lowerBound[0], max(upperBound[0..2])) *)
NeutralSpan(s) ==
    s.lowerBoundIndexForGroup[0] ..
       (Max(Max(s.upperBoundIndexForGroup[0], s.upperBoundIndexForGroup[1]),
            s.upperBoundIndexForGroup[2]) - 1)

(* C12: after each sort() in any sequence of add(), clear() and sort(), for
   every group g numberOfSegmentsForGroup[g] is the number of types that
   have group g now, 0 <= lowerBound[g] <= upperBound[g] <= size(), and the
   neutral span holds no index >= size(). *)
C12_MetadataDescribesContents ==
    lastOp.name = "sort" =>
        /\ \A g \in Groups :
              /\ segments.numberOfSegmentsForGroup[g] = Cardinality(Members(segments, g))
              /\ 0 <= segments.lowerBoundIndexForGroup[g]
              /\ segments.lowerBoundIndexForGroup[g] <= segments.upperBoundIndexForGroup[g]
              /\ segments.upperBoundIndexForGroup[g] <= size(segments)
        /\ \A k \in NeutralSpan(segments) : k < size(segments)

----------------------------------------------------------------------------
(* The matrix model: calculateInteractionMatrix on a sorted collection of up
   to MaxSegments types, with a matrix and partial matrices the caller
   pre-initialized *)

(* Neutral polyatomic and water types of both hydrogen-bond classes on both
   sides of the threshold, a weakly charged monoatomic neutral, and two ions *)
MatrixInputs ==
    { Tuple(1, -5, -5, 1, 1),
      Tuple(1, -5, -5, 2, 8),
      Tuple(1,  5,  4, 2, 8),
      Tuple(1,  5,  5, 1, 1),
      Tuple(2, -5, -5, 1, 1),
      Tuple(2, -5, -4, 2, 8),
      Tuple(0,  1,  1, 0, 2),
      Tuple(4, -3, -3, 0, 7),
      Tuple(6,  5,  5, 0, 8) }

Temperatures == {ReferenceTemperature, 2 * ReferenceTemperature, 4 * ReferenceTemperature}

(* The collection after add() of every tuple of S for molecule 0 with area 1 *)
RECURSIVE AddAll(_, _)
AddAll(s, S) ==
    IF S = {} THEN s
    ELSE LET t == CHOOSE x \in S : TRUE
         IN AddAll(add(s, 0, t.group, t.Sigma, t.SigmaCorr, t.HBtype, t.atomicNumber, 1),
                   S \ {t})

(* The caller's matrix h: diagonal 0, 2, 4, ..., lower triangle -2, 8, 10,
   18, 20, 22, ..., upper triangle below -40, all cells even and distinct,
   shifted by 100 h *)
PreInitialized(n, h) ==
    [c \in Cells(n) |->
        100 * h + (IF c[1] = c[2] THEN 2 * c[1]
                   ELSE IF c[1] > c[2] THEN 10 * (c[1] - 1) + 2 * (c[2] - 1)
                   ELSE -50 - (10 * (c[2] - 1) + 2 * (c[1] - 1)))]

(* The collection is new when it is sorted, so a store through index -1
   writes 0 over 0 and the layout makes no difference here *)
InitMatrix ==
    /\ layout = "adjacent"
    /\ \E S \in SUBSET MatrixInputs :
          /\ Cardinality(S) <= MaxSegments
          /\ pre = AddAll(segmentTypeCollection(NumberOfMolecules), S)
          /\ segments = sort(pre, layout)
          /\ p = get_permutation_vector(pre)
          /\ added = [t \in AddInputs |-> [m \in Molecules |-> 0]]
          /\ addedNonzero = {}
          /\ lastOp = [name |-> "sort", Area |-> 0]
          /\ prevOp = IF S = {} THEN "new" ELSE "add"
          /\ nOps = Cardinality(S) + 1
          /\ nSorts = 1
          /\ nClears = 0
          /\ oobIndexUsed = SortIndexesOutOfBounds(pre)
          /\ A_int = PreInitialized(Cardinality(S), 0)
          /\ A_pre = A_int
          /\ A_mid = A_int
          /\ \E misfit \in {0, 2}, refstate \in {0, 1}, contact \in {0, 1},
                npartial \in 0 .. MaxPartial :
                /\ param = Parameters(misfit, refstate, contact, npartial)
                /\ partialInteractionMatrices =
                      [h \in 0 .. (npartial - 1) |-> PreInitialized(Cardinality(S), h + 1)]
                /\ partial_pre = partialInteractionMatrices
    /\ temperature = ReferenceTemperature
    /\ outcome = NoOutcome
    /\ nCalls = 0
    /\ NoWorkers

CalculateInteractionMatrix ==
    /\ nCalls < MaxCalls
    /\ \E T \in Temperatures :
          LET r == calculateInteractionMatrix(segments, A_int,
                                              partialInteractionMatrices, param, T)
          IN /\ A_int' = r.A
             /\ partialInteractionMatrices' = r.partial
             /\ A_mid' = r.mid
             /\ outcome' = [status |-> r.status, written |-> r.written, at |-> r.at]
             /\ temperature' = T
    /\ A_pre' = A_int
    /\ partial_pre' = partialInteractionMatrices
    /\ nCalls' = nCalls + 1
    /\ UNCHANGED <<param, collVars, thrVars>>

NextMatrix == CalculateInteractionMatrix

SpecMatrix == InitMatrix /\ [][NextMatrix]_vars

----------------------------------------------------------------------------
(* Properties of calculateInteractionMatrix *)

N == size(segments)
Indices == 0 .. (N - 1)

(* The diagonal entries a reference state halves are even, so Half is exact *)
DiagonalsEven ==
    /\ \A i \in Indices : A_int[<<i, i>>] % 2 = 0
    /\ \A h \in DOMAIN partialInteractionMatrices : \A i \in Indices :
          partialInteractionMatrices[h][<<i, i>>] % 2 = 0
    /\ \A c \in DOMAIN A_int : Abs(A_int[c]) < FloatSignificand

(* A matrix is the reference state of another: a zero diagonal, and every
   lower entry shifted by minus half the sum of the other's two diagonals *)
IsReferenceStateOf(A, B) ==
    /\ \A i \in Indices : A[<<i, i>>] = 0
    /\ \A i, j \in Indices :
          j > i => 2 * A[<<j, i>>] = 2 * B[<<j, i>>] - (B[<<i, i>>] + B[<<j, j>>])

(* C5: with sw_useSegmentReferenceStateForInteractionMatrix = 1, after a call
   that returns every diagonal entry of A_int is 0 and every lower entry is
   its value before the reference state minus half the sum of the two
   diagonals before the reference state; with contact statistics on, the same
   holds of every partial matrix h < numberOfPartialInteractionMatrices. *)
C5_ReferenceState ==
    (outcome.status = "returned"
       /\ param.sw_useSegmentReferenceStateForInteractionMatrix = 1) =>
        /\ IsReferenceStateOf(A_int, A_mid)
        /\ param.sw_calculateContactStatisticsAndAdditionalProperties > 0 =>
              \A h \in DOMAIN partialInteractionMatrices :
                  h < param.numberOfPartialInteractionMatrices =>
                      IsReferenceStateOf(partialInteractionMatrices[h], partial_pre[h])

(* C5's case: a returned call with the reference state and contact statistics
   on, a partial matrix, and two segments with diagonals 2 and 4 and lower
   entry 10 before the reference state, 7 after it *)
C5_Witness ==
    /\ outcome.status = "returned"
    /\ param.sw_useSegmentReferenceStateForInteractionMatrix = 1
    /\ param.sw_calculateContactStatisticsAndAdditionalProperties > 0
    /\ param.numberOfPartialInteractionMatrices > 0
    /\ N >= 3
    /\ UpperBoundIndexForNeutralComponents(segments) > 0
    /\ \E i, j \in Indices :
          /\ j > i
          /\ A_mid[<<i, i>>] = 2 /\ A_mid[<<j, j>>] = 4 /\ A_mid[<<j, i>>] = 10
          /\ A_int[<<j, i>>] = 7

(* The pairs the neutral loop visits: lowerBound[0] <= i <= j < the max of
   the upper bounds of groups 0, 1, 2 *)
NeutralUpper ==
    Max(Max(segments.upperBoundIndexForGroup[0], segments.upperBoundIndexForGroup[1]),
        segments.upperBoundIndexForGroup[2])

NeutralPairs ==
    {c \in Cells(N) :
        segments.lowerBoundIndexForGroup[0] <= c[1] /\ c[1] <= c[2] /\ c[2] < NeutralUpper}

(* CHB(T) = CHB * 3.67e7 * max(0, 1 - CHBT + CHBT * 298.15 / T), in the
   model's units *)
ClosedCHB ==
    (param.CHB * HBConstant
        * Max(0, temperature * (1 - param.CHBT) + param.CHBT * ReferenceTemperature))
      \div temperature

(* The donor / acceptor pairs of C6: sigma_i < -SigmaHB, sigma_j > SigmaHB,
   hbType_i = 1, hbType_j = 2, with a positive prefactor *)
DonorAcceptorPairs ==
    {c \in NeutralPairs :
        /\ segments.SegmentTypeSigma[c[1]] < -param.SigmaHB
        /\ segments.SegmentTypeSigma[c[2]] > param.SigmaHB
        /\ segments.SegmentTypeHBtype[c[1]] = 1
        /\ segments.SegmentTypeHBtype[c[2]] = 2
        /\ param.Aeff * ClosedCHB > 0}

(* What the call added to the misfit value of entry (j, i) *)
AddedToMisfit(c) == A_mid[<<c[2], c[1]>>] - MisfitValue(segments, param, c[1], c[2])

ClosedForm(c) ==
    SigmaTransDen * param.Aeff * ClosedCHB
        * (segments.SegmentTypeSigma[c[2]] - param.SigmaHB)
        * (segments.SegmentTypeSigma[c[1]] + param.SigmaHB)

(* C6 as stated: for such a pair the hydrogen-bond term added to the misfit
   value of entry (j, i) is strictly positive and equals the closed form. *)
C6_Original ==
    outcome.status = "returned" =>
        \A c \in DonorAcceptorPairs :
            AddedToMisfit(c) > 0 /\ AddedToMisfit(c) = ClosedForm(c)

(* C6 amended: the term equals the closed form
   Aeff * CHB(T) * (sigma_j - SigmaHB) * (sigma_i + SigmaHB) and is strictly
   negative, its second factor being negative. *)
C6_HydrogenBondTerm ==
    outcome.status = "returned" =>
        \A c \in DonorAcceptorPairs :
            AddedToMisfit(c) < 0 /\ AddedToMisfit(c) = ClosedForm(c)

(* C6's case: a returned call with a donor / acceptor pair *)
C6_Witness ==
    /\ outcome.status = "returned"
    /\ DonorAcceptorPairs # {}
    /\ param.sw_misfit > 0

(* The pairs of C7: the sigma signs pass the gate and the classes are
   swapped *)
SwappedPairs ==
    {c \in NeutralPairs :
        LET si == segments.SegmentTypeSigma[c[1]]
            sj == segments.SegmentTypeSigma[c[2]]
            hi == segments.SegmentTypeHBtype[c[1]]
            hj == segments.SegmentTypeHBtype[c[2]]
        IN \/ si < -param.SigmaHB /\ sj > param.SigmaHB /\ hi = 2 /\ hj = 1
           \/ sj < -param.SigmaHB /\ si > param.SigmaHB /\ hi = 1 /\ hj = 2}

(* Loop order of the pairs: by i, then by j *)
Before(c, d) == c[1] < d[1] \/ (c[1] = d[1] /\ c[2] < d[2])

FirstSwapped == CHOOSE c \in SwappedPairs : \A d \in SwappedPairs : ~Before(d, c)

(* C7: if the loop reaches a pair with swapped classes, the call throws at
   the first such pair: the entries of the pairs before it in loop order hold
   their computed values, every other cell of A_int, that pair's entry
   included, is as before the call, and no reference state is applied to
   A_int or to a partial matrix; without such a pair the call returns. *)
C7_SwappedClassesThrow ==
    outcome.status # "none" =>
        IF SwappedPairs = {}
        THEN outcome.status = "returned"
        ELSE /\ outcome.status = "thrown"
             /\ outcome.at = FirstSwapped
             /\ \A c \in Cells(N) :
                   IF <<c[2], c[1]>> \in NeutralPairs /\ Before(<<c[2], c[1]>>, FirstSwapped)
                   THEN A_int[c] =
                          MisfitValue(segments, param, c[2], c[1])
                             + HydrogenBond(segments, param, temperature, c[2], c[1]).term
                   ELSE A_int[c] = A_pre[c]
             /\ partialInteractionMatrices = partial_pre

(* C7's case: a call with the reference state on that throws at a pair of the
   second kind (sigma_j < -SigmaHB, sigma_i > SigmaHB, classes 1, 2) after
   storing at least two entries *)
C7_Witness ==
    /\ outcome.status = "thrown"
    /\ param.sw_useSegmentReferenceStateForInteractionMatrix = 1
    /\ segments.SegmentTypeSigma[outcome.at[1]] > param.SigmaHB
    /\ Cardinality(outcome.written) >= 2
    /\ \E c \in outcome.written : A_int[c] # A_pre[c]

(* The group of an index is an ion group *)
IsIon(k) == segments.SegmentTypeGroup[k] \in {3, 4, 5, 6}

(* C8: with the reference state off, a call that returns stores exactly the
   cells (j, i) with lowerBound[0] <= i <= j < max(upperBound[0..2]); every
   other cell is as before the call, whether the call returns or throws: no
   cell above the diagonal and no cell with an ion index in its row or column
   is stored or changed. *)
C8_NeutralBlockOnly ==
    (outcome.status # "none"
       /\ param.sw_useSegmentReferenceStateForInteractionMatrix = 0) =>
        /\ outcome.status = "returned" =>
              outcome.written = {<<c[2], c[1]>> : c \in NeutralPairs}
        /\ outcome.written \subseteq {<<c[2], c[1]>> : c \in NeutralPairs}
        /\ \A c \in Cells(N) :
              (c \notin outcome.written) => A_int[c] = A_pre[c]
        /\ \A c \in Cells(N) :
              (c[1] < c[2] \/ IsIon(c[1]) \/ IsIon(c[2])) =>
                  (c \notin outcome.written /\ A_int[c] = A_pre[c])
        /\ partialInteractionMatrices = partial_pre

(* C8's case: a returned call with the reference state off on a collection
   with two neutral types and an ion *)
C8_Witness ==
    /\ outcome.status = "returned"
    /\ param.sw_useSegmentReferenceStateForInteractionMatrix = 0
    /\ N = 3
    /\ NeutralUpper = 2
    /\ IsIon(2)
    /\ Cardinality(outcome.written) = 3

----------------------------------------------------------------------------
(* The worker model: NumberOfWorkers threads of one parallel section, each
   calling run() MaxRuns times on one shared threadException; the initiating
   thread calls rethrow() after the section *)

(* The exception thrown by worker w in its k-th run() *)
ExceptionOf(w, k) == 10 * w + k

InitWorkers ==
    /\ NewThreadException
    /\ pc = [w \in Workers |-> "idle"]
    /\ runs = [w \in Workers |-> 0]
    /\ mainPc = "parallel"
    /\ segments = segmentTypeCollection(NumberOfMolecules)
    /\ pre = segmentTypeCollection(NumberOfMolecules)
    /\ layout = "adjacent"
    /\ InitHistory
    /\ NoMatrix

(* run(): if (!this->Ptr), read without the lock.  A set Ptr makes run()
   return at once. *)
RunCheck(w) ==
    /\ mainPc = "parallel"
    /\ pc[w] = "idle"
    /\ runs[w] < MaxRuns
    /\ runs' = [runs EXCEPT ![w] = @ + 1]
    /\ pc' = [pc EXCEPT ![w] = IF Ptr = NullPtr THEN "try" ELSE "idle"]
    /\ UNCHANGED <<Ptr, Lock, current, firstCaptured, raised, mainPc, collVars, matVars>>

(* try { f(params...); }: f returns *)
CallReturns(w) ==
    /\ pc[w] = "try"
    /\ pc' = [pc EXCEPT ![w] = "idle"]
    /\ UNCHANGED <<Ptr, Lock, current, runs, firstCaptured, raised, mainPc, collVars, matVars>>

(* try { f(params...); } catch (...): f throws and the handler is entered *)
CallThrows(w) ==
    /\ pc[w] = "try"
    /\ current' = [current EXCEPT ![w] = ExceptionOf(w, runs[w])]
    /\ pc' = [pc EXCEPT ![w] = "catch"]
    /\ UNCHANGED <<Ptr, Lock, runs, firstCaptured, raised, mainPc, collVars, matVars>>

(* capture_exception(): std::unique_lock<std::mutex> guard(this->Lock) *)
AcquireLock(w) ==
    /\ pc[w] = "catch"
    /\ Lock = 0
    /\ Lock' = w
    /\ pc' = [pc EXCEPT ![w] = "locked"]
    /\ UNCHANGED <<Ptr, current, runs, firstCaptured, raised, mainPc, collVars, matVars>>

(* capture_exception(): this->Ptr = std::current_exception() *)
StoreException(held, e) == e

Store(w) ==
    /\ pc[w] = "locked"
    /\ Ptr' = StoreException(Ptr, current[w])
    /\ firstCaptured' = IF firstCaptured = NullPtr THEN current[w] ELSE firstCaptured
    /\ pc' = [pc EXCEPT ![w] = "stored"]
    /\ UNCHANGED <<Lock, current, runs, raised, mainPc, collVars, matVars>>

(* capture_exception() returns: the guard releases the lock *)
ReleaseLock(w) ==
    /\ pc[w] = "stored"
    /\ Lock' = 0
    /\ pc' = [pc EXCEPT ![w] = "idle"]
    /\ UNCHANGED <<Ptr, current, runs, firstCaptured, raised, mainPc, collVars, matVars>>

(* After the parallel section, rethrow(): if (this->Ptr) rethrow it *)
Rethrow ==
    /\ mainPc = "parallel"
    /\ \A w \in Workers : pc[w] = "idle" /\ runs[w] = MaxRuns
    /\ raised' = Ptr
    /\ mainPc' = "rethrown"
    /\ UNCHANGED <<Ptr, Lock, pc, current, runs, firstCaptured, collVars, matVars>>

NextWorkers ==
    \/ \E w \in Workers :
          \/ RunCheck(w)
          \/ CallReturns(w)
          \/ CallThrows(w)
          \/ AcquireLock(w)
          \/ Store(w)
          \/ ReleaseLock(w)
    \/ Rethrow

SpecWorkers == InitWorkers /\ [][NextWorkers]_vars

(* C9: when several workers' functions throw, the exception rethrow() raises
   after all workers have finished is the first one that was captured: a
   later capture never replaces a stored exception. *)
C9_FirstWins ==
    /\ mainPc = "rethrown" => raised = firstCaptured
    /\ firstCaptured # NullPtr => Ptr = firstCaptured

====
